---- MODULE Spec2Model ----
(***************************************************************************)
(* A model of tschaub/serve (src/main.go, the variant with --prefix,       *)
(* --explicit-index and --spa, lines 190-452): the prefix normalisation    *)
(* done at startup and the request routing of excludeDot and withIndex,    *)
(* together with the net/http file server the router delegates to.         *)
(*                                                                         *)
(* URL paths and filesystem paths are strings; a character is a string of  *)
(* length one.  The filesystem is a finite tree of files and directories.  *)
(***************************************************************************)
EXTENDS Naturals, Sequences, FiniteSets, TLC

VARIABLES
    pc,             \* where the process is: startup, idle, inside a handler, done
    raw,            \* Serve.Prefix as given on the command line
    Prefix,         \* Serve.Prefix after Run normalised it
    Dot,            \* Serve.Dot
    ExplicitIndex,  \* Serve.ExplicitIndex
    Spa,            \* Serve.Spa
    tree,           \* the filesystem: name of one of the trees of Trees
    reqPath,        \* request.URL.Path of the request being served
    resp,           \* what the handler chain answered and touched
    twice           \* normalizePrefix applied to its own result (SpecNormalize)

vars == <<pc, raw, Prefix, Dot, ExplicitIndex, Spa, tree, reqPath, resp, twice>>

(***************************************************************************)
(* Bounds of the model.                                                    *)
(***************************************************************************)
\* longest raw prefix enumerated character by character
MaxRawLen == 7
\* most segments after the mount prefix in an enumerated request path
MaxSegs == 2

(***************************************************************************)
(* Strings (package strings).                                              *)
(***************************************************************************)
Char(s, i) == SubSeq(s, i, i)

HasPrefix(s, p) == Len(s) >= Len(p) /\ SubSeq(s, 1, Len(p)) = p

HasSuffix(s, p) == Len(s) >= Len(p) /\ SubSeq(s, Len(s) - Len(p) + 1, Len(s)) = p

TrimPrefix(s, p) == IF HasPrefix(s, p) THEN SubSeq(s, Len(p) + 1, Len(s)) ELSE s

TrimSuffix(s, p) == IF HasSuffix(s, p) THEN SubSeq(s, 1, Len(s) - Len(p)) ELSE s

\* strings.Split(s, "/"): the pieces between the slashes, empty pieces kept
RECURSIVE SplitFrom(_, _, _)
SplitFrom(s, i, cur) ==
    IF i > Len(s) THEN <<cur>>
    ELSE IF Char(s, i) = "/" THEN <<cur>> \o SplitFrom(s, i + 1, "")
    ELSE SplitFrom(s, i + 1, cur \o Char(s, i))

Split(s) == SplitFrom(s, 1, "")

\* strings.Join(parts, sep)
RECURSIVE StringsJoin(_, _)
StringsJoin(parts, sep) ==
    IF Len(parts) = 0 THEN ""
    ELSE IF Len(parts) = 1 THEN parts[1]
    ELSE parts[1] \o sep \o StringsJoin(Tail(parts), sep)

\* index of the first occurrence of character c in s at or after i, 0 if none
RECURSIVE IndexFrom(_, _, _)
IndexFrom(s, c, i) ==
    IF i > Len(s) THEN 0
    ELSE IF Char(s, i) = c THEN i
    ELSE IndexFrom(s, c, i + 1)

\* byte order of the characters the model uses (ASCII)
Ascii == "./0123456789:ABCDEFGHIJKLMNOPQRSTUVWXYZ_abcdefghijklmnopqrstuvwxyz"

Ord(c) == CHOOSE i \in 1..Len(Ascii) : Char(Ascii, i) = c

\* Go's a < b on strings: bytewise lexicographic
RECURSIVE StrLess(_, _)
StrLess(a, b) ==
    IF Len(b) = 0 THEN FALSE
    ELSE IF Len(a) = 0 THEN TRUE
    ELSE IF Char(a, 1) = Char(b, 1)
         THEN StrLess(SubSeq(a, 2, Len(a)), SubSeq(b, 2, Len(b)))
    ELSE Ord(Char(a, 1)) < Ord(Char(b, 1))

(***************************************************************************)
(* Package path (and path/filepath, which is the same on a slash system).  *)
(***************************************************************************)
\* the element stack of path.Clean after reading the segments of a path
RECURSIVE CleanStack(_, _, _)
CleanStack(segs, rooted, stack) ==
    IF Len(segs) = 0 THEN stack
    ELSE LET s == Head(segs)
             rest == Tail(segs)
         IN  IF s = "" \/ s = "." THEN CleanStack(rest, rooted, stack)
             ELSE IF s = ".."
                  THEN IF Len(stack) > 0 /\ stack[Len(stack)] # ".."
                       THEN CleanStack(rest, rooted, SubSeq(stack, 1, Len(stack) - 1))
                       ELSE IF rooted THEN CleanStack(rest, rooted, stack)
                       ELSE CleanStack(rest, rooted, Append(stack, ".."))
             ELSE CleanStack(rest, rooted, Append(stack, s))

\* path.Clean
pathClean(p) ==
    LET rooted == HasPrefix(p, "/")
        out == (IF rooted THEN "/" ELSE "")
                 \o StringsJoin(CleanStack(Split(p), rooted, <<>>), "/")
    IN  IF out = "" THEN "." ELSE out

\* path.Join / filepath.Join: the non-empty elements joined by "/" and cleaned
pathJoin(elems) ==
    LET ne == SelectSeq(elems, LAMBDA e : e # "")
    IN  IF Len(ne) = 0 THEN "" ELSE pathClean(StringsJoin(ne, "/"))

\* path.Base / filepath.Base
pathBase(p) ==
    IF p = "" THEN "."
    ELSE LET segs == SelectSeq(Split(p), LAMBDA e : e # "")
         IN  IF Len(segs) = 0 THEN "/" ELSE segs[Len(segs)]

(***************************************************************************)
(* normalizePrefix (net/url JoinPath, String and Parse).                   *)
(***************************************************************************)
\* fmt.Sprintf("http://localhost:%d", s.Port) with the default port
base == "http://localhost:4000"

\* a join that does not put back the trailing slash path.Join removed
UrlJoinedPathNoSlash(elems) == Tail(pathJoin(<<"/">> \o elems))

\* (*URL).JoinPath of a URL with an empty path: the joined, cleaned path
UrlJoinedPath(elems) ==
    LET p == Tail(pathJoin(<<"/">> \o elems))
    IN  IF HasSuffix(elems[Len(elems)], "/") /\ ~HasSuffix(p, "/")
        THEN p \o "/" ELSE p

\* url.JoinPath(b, elems...): the URL written back as a string
UrlJoinPath(b, elems) ==
    LET p == UrlJoinedPath(elems)
    IN  b \o (IF p # "" /\ Char(p, 1) # "/" THEN "/" ELSE "") \o p

\* url.Parse(s).Path for scheme://host/path
UrlParsePath(s) ==
    LET colon == IndexFrom(s, ":", 1)
        slash == IndexFrom(s, "/", colon + 3)
    IN  IF slash = 0 THEN "" ELSE SubSeq(s, slash, Len(s))

normalizePrefix(b, prefix) == UrlParsePath(UrlJoinPath(b, <<prefix, "/">>))

(***************************************************************************)
(* The filesystem.  Serve.Dir is /r; /s lies outside it.  A node is a      *)
(* file, a directory, or a directory that cannot be read ("locked").       *)
(***************************************************************************)
dir == "/r"

TreeRoot ==
    ("/" :> "dir") @@ ("/s" :> "file") @@ ("/r" :> "dir")
    @@ ("/r/f" :> "file") @@ ("/r/B" :> "dir")
    @@ ("/r/a" :> "dir") @@ ("/r/a/index.html" :> "file")
    @@ ("/r/a/f" :> "file") @@ ("/r/a/Ab" :> "file") @@ ("/r/a/a" :> "dir")
    @@ ("/r/.h" :> "dir") @@ ("/r/.h/f" :> "file")

TreeRootWithIndex ==
    ("/" :> "dir") @@ ("/s" :> "file") @@ ("/r" :> "dir")
    @@ ("/r/index.html" :> "file") @@ ("/r/f" :> "file")
    @@ ("/r/a" :> "dir") @@ ("/r/a/f" :> "file") @@ ("/r/a/.h" :> "file")
    @@ ("/r/a/a" :> "locked") @@ ("/r/a/B" :> "dir")

TreeIndexDirs ==
    ("/" :> "dir") @@ ("/s" :> "file") @@ ("/r" :> "dir")
    @@ ("/r/index.html" :> "dir") @@ ("/r/index.html/f" :> "file")
    @@ ("/r/.h" :> "file") @@ ("/r/f" :> "file")
    @@ ("/r/a" :> "dir") @@ ("/r/a/index.html" :> "dir")

Trees == {"root", "rootWithIndex", "indexDirs"}

FS(t) ==
    IF t = "root" THEN TreeRoot
    ELSE IF t = "rootWithIndex" THEN TreeRootWithIndex
    ELSE TreeIndexDirs

IsDirKind(k) == k \in {"dir", "locked"}

\* the path of the first i segments of a clean absolute path
Ancestor(segs, i) == "/" \o StringsJoin(SubSeq(segs, 1, i), "/")

\* what the kernel finds at a clean absolute path p: err is "nil", "ENOENT"
\* (nothing there) or "ENOTDIR" (a component on the way is a file)
Lookup(t, p) ==
    LET fs == FS(t)
        segs == SelectSeq(Split(p), LAMBDA e : e # "")
        n == Len(segs)
        bad == {i \in 0..n : Ancestor(segs, i) \notin DOMAIN fs}
        first == CHOOSE i \in bad : \A j \in bad : i <= j
    IN  IF bad = {} THEN [err |-> "nil", kind |-> fs[p]]
        ELSE IF fs[Ancestor(segs, first - 1)] = "file"
             THEN [err |-> "ENOTDIR", kind |-> "none"]
        ELSE [err |-> "ENOENT", kind |-> "none"]

\* os.Stat
osStat(t, p) == Lookup(t, p)

\* os.Open (read-only): a locked directory cannot be opened
osOpen(t, p) ==
    LET l == Lookup(t, p)
    IN  IF l.err = "nil" /\ l.kind = "locked"
        THEN [err |-> "EACCES", kind |-> "none"] ELSE l

\* the names of the children of directory p
Children(t, p) ==
    {pathBase(q) : q \in {c \in DOMAIN FS(t) : c # p /\ c # "/" /\ pathJoin(<<c, "..">>) = p}}

\* os.ReadDir: open, then read the entries; reading a file fails with ENOTDIR
osReadDir(t, p) ==
    LET o == osOpen(t, p)
    IN  IF o.err # "nil" THEN o.err
        ELSE IF o.kind = "file" THEN "ENOTDIR"
        ELSE "nil"

\* errors.Is(err, os.ErrNotExist)
IsNotExist(err) == err = "ENOENT"

\* the sequences that hold every element of S once
Orders(S) ==
    LET n == Cardinality(S)
    IN  {f \in [1..n -> S] : \A i, j \in 1..n : i # j => f[i] # f[j]}

\* the orders in which the entries of p may be handed to the scan
ReadDirOrders(t, p) ==
    IF osReadDir(t, p) = "nil" THEN Orders(Children(t, p)) ELSE {<<>>}

(***************************************************************************)
(* Responses.  An answer is what reaches the client: the status, the       *)
(* Content-Type and Location headers and what the body holds.              *)
(***************************************************************************)
htmlType == "text/html; charset=utf-8"

plainType == "text/plain; charset=utf-8"

Answer(st, ct, loc, body) ==
    [status |-> st, ctype |-> ct, location |-> loc, body |-> body]

\* http.NotFound
httpNotFound == Answer(404, plainType, "", "404 page not found")

\* http.Error
httpError(msg, code) == Answer(code, plainType, "", msg)

\* localRedirect of net/http: a 301 with a relative Location
localRedirect(newPath) == Answer(301, "", newPath, "")

(***************************************************************************)
(* The raw responder: mux.Handle(s.Prefix, http.StripPrefix(s.Prefix,      *)
(* http.FileServer(dir))) of Serve.handler, and http.ServeFile.            *)
(***************************************************************************)
\* http.Dir.Open: the name is cleaned as a rooted path and joined to the
\* root; a file met where a directory is expected counts as not existing
httpDirOpen(t, root, name) ==
    LET o == osOpen(t, pathJoin(<<root, pathClean("/" \o name)>>))
    IN  IF o.err = "ENOTDIR" THEN [err |-> "ENOENT", kind |-> "none"] ELSE o

\* toHTTPError
toHTTPError(err) ==
    IF err = "ENOENT" THEN httpError("404 page not found", 404)
    ELSE IF err = "EACCES" THEN httpError("403 Forbidden", 403)
    ELSE httpError("500 Internal Server Error", 500)

\* the Content-Type serveContent gives a file: by extension, else by content
contentTypeOf(name) ==
    IF HasSuffix(name, ".html") THEN htmlType ELSE "detected"

\* serveContent for a plain GET
serveContent(full) ==
    Answer(200, contentTypeOf(full), "", "file:" \o full)

\* serveFile of net/http/fs.go; url is r.URL.Path as serveFile sees it
serveFile(t, url, root, name, redirect) ==
    IF HasSuffix(url, "/index.html") THEN localRedirect("./")
    ELSE
    LET full == pathJoin(<<root, pathClean("/" \o name)>>)
        f == httpDirOpen(t, root, name)
        slash == url # "" /\ Char(url, Len(url)) = "/"
        index == TrimSuffix(name, "/") \o "/index.html"
        ff == httpDirOpen(t, root, index)
    IN  IF f.err # "nil" THEN toHTTPError(f.err)
        ELSE IF redirect /\ IsDirKind(f.kind) /\ ~slash
             THEN localRedirect(pathBase(url) \o "/")
        ELSE IF redirect /\ ~IsDirKind(f.kind) /\ slash
             THEN localRedirect("../" \o pathBase(url))
        ELSE IF ~IsDirKind(f.kind) THEN serveContent(full)
        ELSE IF ~slash THEN localRedirect(pathBase(url) \o "/")
        ELSE IF ff.err = "nil" /\ ~IsDirKind(ff.kind)
             THEN serveContent(pathJoin(<<root, pathClean("/" \o index)>>))
        ELSE Answer(200, htmlType, "", "dirList:" \o full)

\* containsDotDot of net/http
containsDotDot(v) == \E i \in 1..Len(Split(v)) : Split(v)[i] = ".."

\* http.ServeFile(w, r, name); url is r.URL.Path
httpServeFile(t, url, name) ==
    IF containsDotDot(url) THEN httpError("invalid URL path", 400)
    ELSE serveFile(t, url, TrimSuffix(name, pathBase(name)), pathBase(name), FALSE)

\* http.FileServer(dir).ServeHTTP
fileServer(t, url) ==
    LET upath == IF HasPrefix(url, "/") THEN url ELSE "/" \o url
    IN  serveFile(t, upath, dir, pathClean(upath), TRUE)

\* http.StripPrefix(prefix, h)
stripPrefix(t, prefix, url) ==
    LET p == TrimPrefix(url, prefix)
    IN  IF Len(p) < Len(url) THEN fileServer(t, p) ELSE httpNotFound

\* cleanPath of net/http/server.go
cleanPath(p) ==
    IF p = "" THEN "/"
    ELSE LET q == IF HasPrefix(p, "/") THEN p ELSE "/" \o p
             np == pathClean(q)
         IN  IF Char(q, Len(q)) = "/" /\ np # "/" THEN np \o "/" ELSE np

\* (*ServeMux).ServeHTTP with the one pattern s.Prefix registered
muxServe(t, prefix, url) ==
    LET path == cleanPath(url)
    IN  IF path \o "/" = prefix THEN Answer(301, htmlType, path \o "/", "")
        ELSE IF path # url THEN Answer(301, htmlType, path, "")
        ELSE IF HasPrefix(url, prefix) THEN stripPrefix(t, prefix, url)
        ELSE httpNotFound

(***************************************************************************)
(* excludeDot and withIndex.  What a handler did is a record: the answer   *)
(* and, beside it, by (the step that decided), raw (whether the wrapped    *)
(* handler was called, and rawPath, the path it was called with), touched  *)
(* (the filesystem paths the router itself opened, read or stat'ed), and   *)
(* for a listing the IndexData handed to the template.                     *)
(***************************************************************************)
fileType == "file"

folderType == "folder"

NoData == [Dir |-> "", Parents |-> <<>>, Entries |-> <<>>]

Outcome(ans, by, touched) ==
    [ans |-> ans, by |-> by, raw |-> FALSE, rawPath |-> "", touched |-> touched,
     data |-> NoData, scanned |-> <<>>]

\* handler.ServeHTTP(response, request): the request goes on as it came
Delegate(t, prefix, path, by, touched, list) ==
    [ans |-> muxServe(t, prefix, path), by |-> by, raw |-> TRUE, rawPath |-> path,
     touched |-> touched, data |-> NoData, scanned |-> list]

\* a filter that looks at the last part of the path only
HasDotSegmentLastOnly(path) ==
    HasPrefix(Split(path)[Len(Split(path))], ".")

\* excludeDot: some part of the path, split on "/", begins with "."
HasDotSegment(path) ==
    \E i \in 1..Len(Split(path)) : HasPrefix(Split(path)[i], ".")

\* a prefix check that forgets the trailing slash of the prefix
InsidePrefixNoSlash(path, prefix) == HasPrefix(path, TrimSuffix(prefix, "/"))

\* withIndex, the prefix check
InsidePrefix(path, prefix) == HasPrefix(path, prefix)

\* withIndex, urlPath
UrlPathOf(path, prefix) == "/" \o TrimPrefix(path, prefix)

\* an explicit-index test that forgets the flag
IsExplicitIndexRequestAlways(urlPath, explicitIndex) ==
    HasSuffix(urlPath, "/index.html")

\* withIndex, the explicit-index test
IsExplicitIndexRequest(urlPath, explicitIndex) ==
    HasSuffix(urlPath, "/index.html") /\ explicitIndex

\* withIndex, the explicit-index step: open the file and copy it out
explicitIndexStep(t, urlPath) ==
    LET indexPath == pathJoin(<<dir, urlPath>>)
        f == osOpen(t, indexPath)
    IN  IF f.err # "nil"
        THEN IF IsNotExist(f.err)
             THEN Outcome(httpNotFound, "explicitIndex", {indexPath})
             ELSE Outcome(httpError(f.err, 500), "explicitIndex", {indexPath})
        ELSE Outcome(Answer(200, htmlType, "",
                            IF f.kind = "file" THEN "file:" \o indexPath ELSE ""),
                     "explicitIndex", {indexPath})

\* withIndex, the SPA test: os.Stat says the path does not exist
SpaMissing(t, urlPath) == IsNotExist(osStat(t, pathJoin(<<dir, urlPath>>)).err)

\* withIndex, a request that does not end with "/"
fileStep(t, prefix, spa, path, urlPath) ==
    IF spa
    THEN IF SpaMissing(t, urlPath)
         THEN Outcome(httpServeFile(t, path, pathJoin(<<dir, "index.html">>)),
                      "spa", {pathJoin(<<dir, urlPath>>)})
         ELSE Delegate(t, prefix, path, "file", {pathJoin(<<dir, urlPath>>)}, <<>>)
    ELSE Delegate(t, prefix, path, "file", {}, <<>>)

\* the Entry of one directory item
ChildEntry(name, isDir, prefix, urlPath) ==
    [Name |-> name,
     Path |-> pathJoin(<<prefix, urlPath, name>>) \o (IF isDir THEN "/" ELSE ""),
     Type |-> IF isDir THEN folderType ELSE fileType]

\* withIndex, an item is left out of the scan
SkippedByDot(name, dot) == ~dot /\ HasPrefix(name, ".")

\* a scan that takes a directory named index.html for an index file
IsIndexBreakAnyKind(name, isDir, explicitIndex) ==
    name = "index.html" /\ ~explicitIndex

\* withIndex, the scan stops at this item
IsIndexBreak(name, isDir, explicitIndex) ==
    ~isDir /\ name = "index.html" /\ ~explicitIndex

\* withIndex, the loop over the directory items from item i on
RECURSIVE Scan(_, _, _, _, _)
Scan(c, list, i, entries, hasIndex) ==
    IF i > Len(list) THEN [entries |-> entries, hasIndex |-> hasIndex]
    ELSE LET name == list[i]
             isDir == IsDirKind(FS(c.t)[pathJoin(<<c.dirPath, name>>)])
         IN  IF SkippedByDot(name, c.dot) THEN Scan(c, list, i + 1, entries, hasIndex)
             ELSE IF IsIndexBreak(name, isDir, c.explicitIndex)
                  THEN [entries |-> entries, hasIndex |-> TRUE]
             ELSE Scan(c, list, i + 1,
                       Append(entries, ChildEntry(name, isDir, c.prefix, c.urlPath)),
                       hasIndex \/ (~isDir /\ name = "index.html"))

\* a less function that compares the names only
EntryLessByName(a, b) == StrLess(a.Name, b.Name)

\* the less function given to sort.Slice
EntryLess(a, b) ==
    IF a.Type = folderType /\ b.Type # folderType THEN TRUE
    ELSE IF b.Type = folderType /\ a.Type # folderType THEN FALSE
    ELSE StrLess(a.Name, b.Name)

\* e put into the sorted sequence es
RECURSIVE InsertEntry(_, _)
InsertEntry(e, es) ==
    IF Len(es) = 0 THEN <<e>>
    ELSE IF EntryLess(e, Head(es)) THEN <<e>> \o es
    ELSE <<Head(es)>> \o InsertEntry(e, Tail(es))

\* sort.Slice(entries, less): names in a directory differ, so less is a
\* strict total order and the sorted sequence is unique
RECURSIVE SortEntries(_)
SortEntries(es) ==
    IF Len(es) = 0 THEN <<>> ELSE InsertEntry(Head(es), SortEntries(Tail(es)))

\* withIndex, whether the ".." entry is added
HasParentEntry(urlPath) == urlPath # "/"

\* withIndex, the ".." entry
ParentEntry(prefix, urlPath) ==
    [Name |-> "..", Path |-> pathJoin(<<prefix, urlPath, "..">>), Type |-> folderType]

\* withIndex, the breadcrumb of part i of parentParts
Breadcrumb(prefix, parentParts, i) ==
    [Name |-> IF parentParts[i] = "" THEN pathBase(dir) ELSE parentParts[i],
     Path |-> pathJoin(<<prefix, StringsJoin(SubSeq(parentParts, 1, i), "/")>>) \o "/",
     Type |-> folderType]

\* withIndex, parentEntries
ParentEntries(prefix, urlPath) ==
    LET parts == Split(urlPath)
        parentParts == SubSeq(parts, 1, Len(parts) - 1)
    IN  [i \in 1..Len(parentParts) |-> Breadcrumb(prefix, parentParts, i)]

\* withIndex, a request that ends with "/"
dirStep(t, prefix, dot, explicitIndex, path, urlPath, list) ==
    LET dirPath == pathJoin(<<dir, urlPath>>)
        dirErr == osReadDir(t, dirPath)
        c == [t |-> t, dirPath |-> dirPath, prefix |-> prefix, urlPath |-> urlPath,
              dot |-> dot, explicitIndex |-> explicitIndex]
        scan == Scan(c, list, 1, <<>>, FALSE)
        sorted == SortEntries(scan.entries)
        entries == IF HasParentEntry(urlPath)
                   THEN <<ParentEntry(prefix, urlPath)>> \o sorted ELSE sorted
    IN  IF dirErr # "nil"
        THEN IF IsNotExist(dirErr)
             THEN Outcome(httpNotFound, "readDir", {dirPath})
             ELSE Outcome(httpError(dirErr, 500), "readDir", {dirPath})
        ELSE IF scan.hasIndex /\ ~explicitIndex
             THEN Delegate(t, prefix, path, "index", {dirPath}, list)
        ELSE [ans |-> Answer(200, htmlType, "", "listing"), by |-> "listing",
              raw |-> FALSE, rawPath |-> "", touched |-> {dirPath},
              data |-> [Dir |-> pathJoin(<<pathBase(dir), urlPath>>),
                        Parents |-> ParentEntries(prefix, urlPath),
                        Entries |-> entries],
              scanned |-> list]

\* the handler withIndex returns; list is the order os.ReadDir gave
withIndex(t, prefix, dot, explicitIndex, spa, path, list) ==
    IF ~InsidePrefix(path, prefix) THEN Outcome(httpNotFound, "prefix", {})
    ELSE LET urlPath == UrlPathOf(path, prefix)
         IN  IF IsExplicitIndexRequest(urlPath, explicitIndex)
             THEN explicitIndexStep(t, urlPath)
             ELSE IF ~HasSuffix(urlPath, "/")
                  THEN fileStep(t, prefix, spa, path, urlPath)
             ELSE dirStep(t, prefix, dot, explicitIndex, path, urlPath, list)

(***************************************************************************)
(* The inputs.                                                             *)
(***************************************************************************)
\* the --prefix values the server is started with
RawPrefixes == {"", "p", "../p/./q//"}

\* the characters of the raw prefixes enumerated for normalizePrefix
RawAlphabet == {"/", ".", "f"}

RECURSIVE StringsUpTo(_)
StringsUpTo(n) ==
    IF n = 0 THEN {""}
    ELSE LET shorter == StringsUpTo(n - 1)
         IN  shorter \cup {s \o c : s \in shorter, c \in RawAlphabet}

\* the raw prefixes of TestNormalizePrefix
TestPrefixes ==
    {"/foo/", "/foo", "foo/", "foo", "foo/bar", "../foo", "", "///foo///bar",
     "/foo/../bar"}

RawInputs == StringsUpTo(MaxRawLen) \cup TestPrefixes

\* the path segments requests are made of; z names nothing in any tree
Segs == {"", "a", "f", ".h", "..", "index.html", "z"}

\* the paths below a mount point: up to MaxSegs segments, with or without
\* a trailing slash
RelPaths ==
    {StringsJoin(segs, "/") \o tail :
        segs \in UNION {[1..k -> Segs] : k \in 0..MaxSegs}, tail \in {"", "/"}}

\* the request paths: below the root, below the prefix, and below the
\* prefix written without its trailing slash
RequestPaths(prefix) ==
    {p \in {m \o rel : m \in {"/", prefix, TrimSuffix(prefix, "/")}, rel \in RelPaths} :
        HasPrefix(p, "/")}

NoOutcome == Outcome(Answer(0, "", "", ""), "", {})

(***************************************************************************)
(* The server.                                                             *)
(***************************************************************************)
Init ==
    /\ pc = "start"
    /\ raw \in RawPrefixes
    /\ Prefix = ""
    /\ Dot \in BOOLEAN
    /\ ExplicitIndex \in BOOLEAN
    /\ Spa \in BOOLEAN
    /\ tree \in Trees
    /\ reqPath = ""
    /\ resp = NoOutcome
    /\ twice = ""

\* Serve.Run: the prefix is normalised once, then the server listens
Run ==
    /\ pc = "start"
    /\ Prefix' = normalizePrefix(base, raw)
    /\ pc' = "idle"
    /\ UNCHANGED <<raw, Dot, ExplicitIndex, Spa, tree, reqPath, resp, twice>>

\* a GET request arrives at the handler Serve.handler built: excludeDot
\* wraps withIndex unless dot files are served
Receive ==
    /\ pc = "idle"
    /\ \E p \in RequestPaths(Prefix) : reqPath' = p
    /\ resp' = NoOutcome
    /\ pc' = IF Dot THEN "withIndex" ELSE "excludeDot"
    /\ UNCHANGED <<raw, Prefix, Dot, ExplicitIndex, Spa, tree, twice>>

\* the handler excludeDot returns
ExcludeDot ==
    /\ pc = "excludeDot"
    /\ IF HasDotSegment(reqPath)
       THEN /\ resp' = Outcome(httpNotFound, "excludeDot", {})
            /\ pc' = "done"
       ELSE /\ resp' = resp
            /\ pc' = "withIndex"
    /\ UNCHANGED <<raw, Prefix, Dot, ExplicitIndex, Spa, tree, reqPath, twice>>

\* the handler withIndex returns, the wrapped handler's work included
WithIndex ==
    /\ pc = "withIndex"
    /\ \E list \in ReadDirOrders(tree, pathJoin(<<dir, UrlPathOf(reqPath, Prefix)>>)) :
          resp' = withIndex(tree, Prefix, Dot, ExplicitIndex, Spa, reqPath, list)
    /\ pc' = "done"
    /\ UNCHANGED <<raw, Prefix, Dot, ExplicitIndex, Spa, tree, reqPath, twice>>

\* the response is sent; the server waits for the next request
Finish ==
    /\ pc = "done"
    /\ pc' = "idle"
    /\ reqPath' = ""
    /\ resp' = NoOutcome
    /\ UNCHANGED <<raw, Prefix, Dot, ExplicitIndex, Spa, tree, twice>>

Next == Run \/ Receive \/ ExcludeDot \/ WithIndex \/ Finish

Spec == Init /\ [][Next]_vars

(***************************************************************************)
(* normalizePrefix on its own: every raw prefix, normalised, and the       *)
(* result normalised again.                                                *)
(***************************************************************************)
InitNormalize ==
    /\ pc = "start"
    /\ raw \in RawInputs
    /\ Prefix = ""
    /\ Dot = FALSE
    /\ ExplicitIndex = FALSE
    /\ Spa = FALSE
    /\ tree = "root"
    /\ reqPath = ""
    /\ resp = NoOutcome
    /\ twice = ""

Renormalize ==
    /\ pc = "idle"
    /\ twice' = normalizePrefix(base, Prefix)
    /\ pc' = "renormalized"
    /\ UNCHANGED <<raw, Prefix, Dot, ExplicitIndex, Spa, tree, reqPath, resp>>

NextNormalize == Run \/ Renormalize

SpecNormalize == InitNormalize /\ [][NextNormalize]_vars

(***************************************************************************)
(* What the properties speak of.                                           *)
(***************************************************************************)
Done == pc = "done"

\* some segment of the request path begins with "." (read off the characters)
DotSegmentIn(path) ==
    \E i \in 1..Len(path) :
        Char(path, i) = "." /\ (i = 1 \/ Char(path, i - 1) = "/")

\* the request reached withIndex
ReachedRouter == Done /\ (Dot \/ ~DotSegmentIn(reqPath))

\* the request reached withIndex and lies inside the mount prefix
Routed == ReachedRouter /\ HasPrefix(reqPath, Prefix)

\* urlPath of the request being served
urlPath == "/" \o SubSeq(reqPath, Len(Prefix) + 1, Len(reqPath))

\* the filesystem path the request maps to
target == pathJoin(<<dir, urlPath>>)

\* the request path is written canonically: no empty, "." or ".." segment
Canonical == cleanPath(reqPath) = reqPath

\* the kind of the node at filesystem path p, "none" if there is none
KindAt(p) == IF p \in DOMAIN FS(tree) THEN FS(tree)[p] ELSE "none"

(***************************************************************************)
(* C1: under a mount prefix other than "/", a request whose path does not  *)
(* begin with the prefix (the prefix without its trailing slash included)  *)
(* is answered 404, and the router neither touches the filesystem nor      *)
(* calls the raw responder, whatever Dot, ExplicitIndex and Spa are.       *)
(***************************************************************************)
C1_OutsidePrefixNotFound ==
    (Done /\ Prefix # "/" /\ ~HasPrefix(reqPath, Prefix))
        => /\ resp.ans.status = 404
           /\ resp.touched = {}
           /\ ~resp.raw

\* the prefix without its trailing slash, refused by withIndex itself with
\* every mode on
C1_Witness ==
    /\ Done /\ Prefix = "/p/q/" /\ reqPath = "/p/q"
    /\ Dot /\ ExplicitIndex /\ Spa
    /\ resp.by = "prefix" /\ resp.ans.status = 404

(***************************************************************************)
(* C2: with dot-serving off, a request with a segment that begins with "." *)
(* is answered 404 by excludeDot and no routing step of withIndex runs for *)
(* it; with dot-serving on excludeDot is not part of the chain and such a  *)
(* request is routed by withIndex (an existing dot file is served).        *)
(***************************************************************************)
C2_DotFilterFirst ==
    /\ (Done /\ ~Dot /\ DotSegmentIn(reqPath))
          => resp = Outcome(httpNotFound, "excludeDot", {})
    /\ (pc = "withIndex" /\ ~Dot) => ~DotSegmentIn(reqPath)
    /\ Dot => (pc # "excludeDot" /\ resp.by # "excludeDot")
    /\ (Done /\ Dot /\ tree = "root" /\ reqPath = Prefix \o ".h/f")
          => (resp.raw /\ resp.ans.status = 200 /\ resp.ans.body = "file:/r/.h/f")

\* a dot directory in the middle of a path below the prefix, filtered with
\* explicit-index and SPA modes on
C2_Witness ==
    /\ Done /\ ~Dot /\ ExplicitIndex /\ Spa
    /\ Prefix = "/p/" /\ reqPath = "/p/.h/index.html"
    /\ resp.by = "excludeDot" /\ resp.ans.status = 404

(***************************************************************************)
(* C3: a directory request that reaches the router inside the prefix and   *)
(* names an existing readable directory is handed to the raw responder     *)
(* exactly when explicit-index mode is off and the directory holds a file  *)
(* named index.html; otherwise a listing is rendered with status 200 and   *)
(* Content-Type text/html; charset=utf-8.  The scan order does not matter: *)
(* the action draws every order.  For a canonical path the raw responder   *)
(* then serves that index.html.                                            *)
(***************************************************************************)
C3_DelegateIffIndex ==
    (Routed /\ HasSuffix(urlPath, "/") /\ KindAt(target) = "dir")
        => IF ~ExplicitIndex /\ KindAt(pathJoin(<<target, "index.html">>)) = "file"
           THEN /\ resp.raw /\ resp.rawPath = reqPath
                /\ resp.data = NoData
                /\ cleanPath(reqPath) = reqPath
                      => resp.ans = Answer(200, htmlType, "",
                                           "file:" \o pathJoin(<<target, "index.html">>))
           ELSE /\ ~resp.raw
                /\ resp.by = "listing"
                /\ resp.ans.status = 200
                /\ resp.ans.ctype = htmlType

\* index.html met last in the scan, after three other items
C3_Witness ==
    /\ Done /\ resp.by = "index" /\ resp.raw
    /\ Len(resp.scanned) = 4 /\ resp.scanned[4] = "index.html"
    /\ resp.ans.body = "file:/r/a/index.html"

(***************************************************************************)
(* C4: with explicit-index mode on, a request inside the prefix whose      *)
(* urlPath ends with /index.html is answered by the router and never       *)
(* handed to the raw responder (no 301): the file's bytes with status 200  *)
(* and Content-Type text/html; charset=utf-8 if the file exists, 404 if    *)
(* nothing exists at that path.                                            *)
(***************************************************************************)
C4_ExplicitIndexFileOr404 ==
    (Routed /\ ExplicitIndex /\ HasSuffix(urlPath, "/index.html"))
        => /\ ~resp.raw
           /\ resp.ans.status # 301
           /\ KindAt(target) = "file"
                 => resp.ans = Answer(200, htmlType, "", "file:" \o target)
           /\ KindAt(target) = "none" => resp.ans.status = 404

(***************************************************************************)
(* C5 as claimed: a request for the path of an existing directory below    *)
(* the mount root, without a trailing slash, is handed unmodified to the   *)
(* raw responder and answered 301 with Location <name>/ under every        *)
(* combination of ExplicitIndex and Spa; and with explicit-index mode off  *)
(* a request for an existing <dir>/index.html is handed to the raw         *)
(* responder and answered 301 with Location ./ and no content.  (Read for  *)
(* requests that reach the router and directories that can be read.)       *)
(***************************************************************************)
DirRedirected ==
    /\ resp.raw /\ resp.rawPath = reqPath
    /\ resp.ans.status = 301
    /\ resp.ans.location = pathBase(urlPath) \o "/"

IndexRedirected ==
    (Routed /\ ~ExplicitIndex /\ HasSuffix(urlPath, "/index.html")
       /\ KindAt(dir \o urlPath) # "none")
        => /\ resp.raw /\ resp.rawPath = reqPath
           /\ resp.ans.status = 301
           /\ resp.ans.location = "./"
           /\ resp.ans.body = ""

C5_RedirectsPreserved_AsClaimed ==
    /\ (Routed /\ urlPath # "/" /\ KindAt(dir \o urlPath) = "dir")
          => DirRedirected
    /\ IndexRedirected

(***************************************************************************)
(* C5 as amended: the same, for directories not themselves named           *)
(* index.html.  (A directory named index.html is answered 301 ./ by the    *)
(* raw responder with explicit-index mode off, and 200 with an empty body  *)
(* by the explicit-index step with it on.)                                 *)
(***************************************************************************)
C5_RedirectsPreserved ==
    /\ (Routed /\ urlPath # "/" /\ KindAt(dir \o urlPath) = "dir"
          /\ pathBase(urlPath) # "index.html")
          => DirRedirected
    /\ IndexRedirected

\* a directory below a prefix, redirected with both modes on
C5_Witness ==
    /\ Done /\ ExplicitIndex /\ Spa
    /\ Prefix = "/p/" /\ reqPath = "/p/a/a" /\ tree = "root"
    /\ resp.raw /\ resp.ans.status = 301 /\ resp.ans.location = "a/"

(***************************************************************************)
(* C6: with SPA mode on, for a request inside the prefix whose urlPath     *)
(* does not end with "/" and that the explicit-index step does not take:   *)
(* if nothing exists at the mapped path the root index.html is served (no  *)
(* redirect, no 404), and if something exists the request is delegated to  *)
(* the raw responder as with SPA mode off.  (Read for a canonical request  *)
(* path, a root that holds an index.html file, and "nothing exists" as     *)
(* os.Stat reports it.)                                                    *)
(***************************************************************************)
C6_SpaServesRootIndex ==
    (Routed /\ Canonical /\ Spa /\ ~HasSuffix(urlPath, "/")
       /\ ~(ExplicitIndex /\ HasSuffix(urlPath, "/index.html"))
       /\ KindAt(pathJoin(<<dir, "index.html">>)) = "file"
       /\ osStat(tree, target).err \in {"nil", "ENOENT"})
        => IF KindAt(target) = "none"
           THEN /\ ~resp.raw
                /\ resp.ans = Answer(200, htmlType, "",
                                     "file:" \o pathJoin(<<dir, "index.html">>))
           ELSE /\ resp.raw /\ resp.rawPath = reqPath
                /\ resp.ans = muxServe(tree, Prefix, reqPath)

(***************************************************************************)
(* C7: with SPA mode on and explicit-index mode off, a request inside the  *)
(* prefix that matches no filesystem entry is answered with the root       *)
(* index.html, never 404, also when its path ends with "/" (the case       *)
(* stated here; C6 states the other).  (Read for a canonical request path, *)
(* a root that holds an index.html file, and "no entry" as os.Stat reports *)
(* it.)                                                                    *)
(***************************************************************************)
C7_SpaServesAnyUnmatchedPath ==
    (Routed /\ Canonical /\ Spa /\ ~ExplicitIndex /\ HasSuffix(urlPath, "/")
       /\ KindAt(pathJoin(<<dir, "index.html">>)) = "file"
       /\ osStat(tree, target).err = "ENOENT")
        => /\ resp.ans.status # 404
           /\ resp.ans.body = "file:" \o pathJoin(<<dir, "index.html">>)

(***************************************************************************)
(* C8: in a rendered listing, Entries holds one Entry per child of the     *)
(* listed directory, dot-prefixed children left out unless dot files are   *)
(* served, all directories before all files and each group ascending by    *)
(* name in byte order; when urlPath is not "/" a folder entry named ".."   *)
(* comes before them all, and when urlPath is "/" there is no ".." entry.  *)
(***************************************************************************)
\* the children of the listed directory that a listing shows
Eligible == {n \in Children(tree, target) : Dot \/ Char(n, 1) # "."}

\* the entries of the listing after the ".." entry, if there is one
Listed ==
    IF urlPath # "/" THEN Tail(resp.data.Entries) ELSE resp.data.Entries

C8_ListingEntries ==
    (Done /\ resp.by = "listing")
        => /\ urlPath # "/"
                 => /\ Len(resp.data.Entries) > 0
                    /\ resp.data.Entries[1].Name = ".."
                    /\ resp.data.Entries[1].Type = folderType
           /\ Len(Listed) = Cardinality(Eligible)
           /\ {Listed[i].Name : i \in 1..Len(Listed)} = Eligible
           /\ \A i \in 1..Len(Listed) :
                 /\ Listed[i].Name # ".."
                 /\ Listed[i].Type =
                       IF IsDirKind(KindAt(pathJoin(<<target, Listed[i].Name>>)))
                       THEN folderType ELSE fileType
           /\ \A i, j \in 1..Len(Listed) :
                 i < j => /\ (Listed[i].Type = folderType \/ Listed[j].Type = fileType)
                          /\ Listed[i].Type = Listed[j].Type
                                => StrLess(Listed[i].Name, Listed[j].Name)

\* the listing of /r/a of the tree "root" in explicit-index mode, read in
\* an order that is not the sorted one: a folder, then Ab, f, index.html
C8_Witness ==
    /\ Done /\ resp.by = "listing" /\ ExplicitIndex /\ tree = "root"
    /\ urlPath = "/a/"
    /\ resp.scanned = <<"index.html", "f", "a", "Ab">>
    /\ [i \in 1..5 |-> resp.data.Entries[i].Name] = <<"..", "a", "Ab", "f", "index.html">>

(***************************************************************************)
(* C9: every Entry handed to the template (child entries, the ".." entry,  *)
(* the breadcrumb parents) has a Path that begins with the mount prefix    *)
(* and ends with "/" exactly when its Type is folder; so the ".." entry of *)
(* a directory one level below the mount root is the mount prefix itself.  *)
(* (Read for canonical request paths.)                                     *)
(***************************************************************************)
TemplateEntries ==
    {resp.data.Entries[i] : i \in 1..Len(resp.data.Entries)}
        \cup {resp.data.Parents[i] : i \in 1..Len(resp.data.Parents)}

C9_EntryPaths ==
    (Done /\ Canonical /\ resp.by = "listing")
        => \A e \in TemplateEntries :
              /\ HasPrefix(e.Path, Prefix)
              /\ HasSuffix(e.Path, "/") <=> (e.Type = folderType)

(***************************************************************************)
(* C10: normalizePrefix returns, for every raw prefix, a path that begins  *)
(* and ends with "/" and has no empty, "." or ".." segment between its     *)
(* slashes; normalising the result again gives the same path; and the raw  *)
(* prefixes of the tests give the paths the tests expect.                  *)
(***************************************************************************)
\* the segments between the first and the last slash of p
InnerSegments(p) ==
    LET parts == Split(p) IN {parts[i] : i \in 2..(Len(parts) - 1)}

Normalized(p) ==
    /\ HasPrefix(p, "/")
    /\ HasSuffix(p, "/")
    /\ p # "/" => InnerSegments(p) \cap {"", ".", ".."} = {}

C11_MissingDirectoryNotFound ==
    (Routed /\ Canonical /\ HasSuffix(urlPath, "/"))
        => /\ ~IsDirKind(KindAt(target)) => resp.ans.status = 404
           /\ resp.ans.status >= 500
                 => (IsDirKind(KindAt(target)) /\ resp.ans.body # "")
           /\ resp.ans.status >= 400
                 => (~resp.raw /\ resp.by # "listing" /\ resp.data = NoData)

(***************************************************************************)
(* C12: in a rendered listing Parents is ordered root first and holds one  *)
(* breadcrumb per directory from the mount root down to the listed         *)
(* directory; the i-th breadcrumb's Path is the mount prefix followed by   *)
(* the first i segments of urlPath, each followed by one "/", so the first *)
(* Path is the mount prefix itself, also when that is "/"; the first Name  *)
(* is the base name of Serve.Dir, every other Name its own segment.        *)
(* (Read for canonical request paths.)                                     *)
(***************************************************************************)
\* the segments of urlPath, the listed directory's last
UrlSegments == SelectSeq(Split(urlPath), LAMBDA e : e # "")

\* the mount prefix followed by the first i segments, each followed by "/"
RECURSIVE CrumbPath(_)
CrumbPath(i) ==
    IF i = 0 THEN Prefix ELSE CrumbPath(i - 1) \o UrlSegments[i] \o "/"

C12_Breadcrumbs ==
    (Done /\ Canonical /\ resp.by = "listing")
        => /\ Len(resp.data.Parents) = Len(UrlSegments) + 1
           /\ \A i \in 1..Len(resp.data.Parents) :
                 /\ resp.data.Parents[i].Path = CrumbPath(i - 1)
                 /\ resp.data.Parents[i].Name =
                       IF i = 1 THEN pathBase(dir) ELSE UrlSegments[i - 1]

(***************************************************************************)
(* C13: with explicit-index and SPA modes both on, the explicit-index step *)
(* decides first and only for paths that end with /index.html: a request   *)
(* for an absent <dir>/index.html is answered 404 and not with the root    *)
(* index.html, and a request for any other absent path that does not end   *)
(* with "/" is answered with the root index.html and not delegated.  (Read *)
(* for canonical request paths and a root that holds an index.html file.)  *)
(***************************************************************************)
C13_ExplicitIndexBeforeSpa ==
    (Routed /\ Canonical /\ ExplicitIndex /\ Spa /\ ~HasSuffix(urlPath, "/")
       /\ KindAt(pathJoin(<<dir, "index.html">>)) = "file"
       /\ KindAt(target) = "none")
        => IF HasSuffix(urlPath, "/index.html")
           THEN /\ resp.by = "explicitIndex"
                /\ resp.ans.status = 404
           ELSE /\ ~resp.raw
                /\ resp.ans = Answer(200, htmlType, "",
                                     "file:" \o pathJoin(<<dir, "index.html">>))

(***************************************************************************)
(* C14: under every configuration and for every request path, each         *)
(* filesystem path the router itself touches (the directory it lists, the  *)
(* file it opens in explicit-index mode, the path it stats for the SPA     *)
(* fallback) lies inside Serve.Dir.                                        *)
(***************************************************************************)
InsideRoot(p) == p = dir \/ HasPrefix(p, dir \o "/")

C14_TouchedInsideRoot ==
    Done => \A p \in resp.touched : InsideRoot(p)

====
